---- MODULE Spec2Model ----
(***************************************************************************)
(* SecureVault: the append-only encrypted vault log (crates/vault-store),  *)
(* the key ladder (crates/core-crypto) and the command surface of the      *)
(* desktop host (apps/desktop/src-tauri/src/main.rs).                      *)
(*                                                                         *)
(* The vault file is a sequence of bytes with the widths of the code       *)
(* (u32 little-endian length fields, 16-byte ids, 12-byte nonces, 16-byte  *)
(* GCM tags, 32-byte keys).  Argon2id, HKDF and AES-256-GCM are library    *)
(* code: they are modelled as ideal primitives on bytes (a keyed digest,   *)
(* a keyed stream and a tag that verifies only under the same key, nonce,  *)
(* associated data and ciphertext).                                        *)
(***************************************************************************)
EXTENDS Integers, Sequences, FiniteSets, TLC

VARIABLES
    file,               \* the vault path on disk: [exists, bytes]
    ret,                \* the last call and what it returned
    written,            \* history: the entries appended so far, in append order
    damage,             \* history: bytes left in the log by something else than a completed append
    vault,              \* history: master password and DEK of the successful create_vault
    is_locked,          \* AppState.is_locked
    idle_detector,      \* AppState.idle_detector (None, or Some with last_activity)
    clipboard_manager,  \* AppState.clipboard_manager (None, or Some with clear_timeout)
    now,                \* the system clock, in seconds
    clipboard,          \* the system clipboard: its text and when it was placed
    timers              \* the clear-timer threads asleep: their wake-up times

vars == <<file, ret, written, damage, vault, is_locked, idle_detector, clipboard_manager, now,
          clipboard, timers>>

-----------------------------------------------------------------------------
(* Bounds of the model *)

\* at most this many records are appended to the log
MaxRecords == 2

-----------------------------------------------------------------------------
(* Bytes *)

Rep(b, n) == [i \in 1..n |-> b]

Take(s, n) == SubSeq(s, 1, n)

Drop(s, n) == SubSeq(s, n + 1, Len(s))

IsPrefix(s, t) == Len(s) <= Len(t) /\ Take(t, Len(s)) = s

\* u32::to_le_bytes
to_le_bytes(n) ==
    << n % 256, (n \div 256) % 256, (n \div 65536) % 256, (n \div 16777216) % 256 >>

\* u32::from_le_bytes
from_le_bytes(b) == b[1] + 256 * b[2] + 65536 * b[3] + 16777216 * b[4]

\* A read position in an open file: read_exact(n) either returns the next n
\* bytes and advances, or fails with UnexpectedEof when fewer remain.
CanRead(bytes, pos, n) == pos + n <= Len(bytes)

ReadAt(bytes, pos, n) == SubSeq(bytes, pos + 1, pos + n)

-----------------------------------------------------------------------------
(* Ideal primitives *)

\* A position-weighted digest of a byte string.
RECURSIVE DigestRange(_, _, _)
DigestRange(s, lo, hi) ==
    IF lo > hi THEN 0
    ELSE IF lo = hi THEN (lo * s[lo]) % 251
    ELSE LET mid == (lo + hi) \div 2
         IN  (DigestRange(s, lo, mid) + DigestRange(s, mid + 1, hi)) % 251

Digest(s) == (DigestRange(s, 1, Len(s)) + Len(s)) % 251

\* A 32-byte key derived from a byte string.
Hash32(s) == LET d == Digest(s) IN [i \in 1..32 |-> (d + 7 * (i - 1)) % 256]

\* The 16-byte GCM tag over key, nonce, associated data and ciphertext.
Tag16(key, nonce, aad, body) ==
    LET d == Digest(key \o nonce \o to_le_bytes(Len(aad)) \o aad \o body)
    IN  [i \in 1..16 |-> (d + 11 * (i - 1)) % 256]

\* The key stream byte at position i.
KeyStream(key, nonce, i) ==
    (key[((i - 1) % 32) + 1] + nonce[((i - 1) % 12) + 1] + i) % 256

\* Aes256Gcm::encrypt: ciphertext || tag
GcmSeal(key, nonce, pt, aad) ==
    LET body == [i \in 1..Len(pt) |-> (pt[i] + KeyStream(key, nonce, i)) % 256]
    IN  body \o Tag16(key, nonce, aad, body)

Ok(v) == [kind |-> "Ok", val |-> v]

Err(e) == [kind |-> "Err", val |-> e]

\* a panic (expect, slice index out of range) unwinds out of the call
Panic == [kind |-> "Panic", val |-> "panic"]

IsOk(r) == r.kind = "Ok"

\* the ? operator: an error (or an unwinding panic) leaves the function at once
Try(r, K(_)) == IF IsOk(r) THEN K(r.val) ELSE r

\* Result::map_err
map_err(r, e) == IF r.kind = "Err" THEN Err(e) ELSE r

\* Result::expect
expect(r) == IF r.kind = "Err" THEN Panic ELSE r

\* Aes256Gcm::decrypt: the plaintext, or an error when the tag does not verify
GcmOpen(key, nonce, ct, aad) ==
    IF Len(ct) < 16 THEN Err("aead::Error")
    ELSE LET body == Take(ct, Len(ct) - 16)
             tag  == Drop(ct, Len(ct) - 16)
         IN  IF tag # Tag16(key, nonce, aad, body) THEN Err("aead::Error")
             ELSE Ok([i \in 1..Len(body) |->
                        (body[i] + 256 - KeyStream(key, nonce, i)) % 256])

-----------------------------------------------------------------------------
(* crates/core-crypto *)

ArgonParams == [mem_kib |-> 262144, iterations |-> 3, parallelism |-> 4]

\* derive_kek with the password left out of the Argon2 input
derive_kek_salt_only(master, params, salt) ==
    Hash32(<<params.mem_kib % 256, params.iterations % 256, params.parallelism % 256>>
           \o salt)

derive_kek(master, params, salt) ==
    Hash32(<<params.mem_kib % 256, params.iterations % 256, params.parallelism % 256>>
           \o to_le_bytes(Len(master)) \o master \o salt)

wrap_key_aes_gcm(kek, dek, nonce12) == nonce12 \o GcmSeal(kek, nonce12, dek, << >>)

unwrap_key_aes_gcm(kek, ct_with_nonce) ==
    IF Len(ct_with_nonce) < 12 + 16 THEN Err("ciphertext too short")
    ELSE Try(map_err(GcmOpen(kek, Take(ct_with_nonce, 12), Drop(ct_with_nonce, 12), << >>),
                     "decryption failure - wrong password or corrupted data"),
             LAMBDA dek : IF Len(dek) < 32 THEN Panic      \* &dek[..32] out of range
                          ELSE Ok(Take(dek, 32)))

aead_encrypt_aes_gcm(key, nonce12, plaintext, aad) == GcmSeal(key, nonce12, plaintext, aad)

\* .expect("decryption failure"): a tag mismatch panics
aead_decrypt_aes_gcm(key, ct, nonce12, aad) == expect(GcmOpen(key, nonce12, ct, aad))

derive_item_key(dek, item_id) == Hash32(dek \o <<105, 116, 101, 109>> \o item_id)

-----------------------------------------------------------------------------
(* The postcard codec, as the serde derives of VaultHeader and VaultEntry use it. *)
(* A parser returns the value it read and the position after it.                 *)

\* an unsigned integer as a LEB128 varint
RECURSIVE varint(_)
varint(n) == IF n < 128 THEN <<n>> ELSE <<(n % 128) + 128>> \o varint(n \div 128)

At(v, pos) == [val |-> v, pos |-> pos]

\* reads a varint of at most max bytes at pos
RECURSIVE take_varint(_, _, _)
take_varint(b, pos, max) ==
    IF max = 0 \/ ~CanRead(b, pos, 1) THEN Err("codec")
    ELSE IF b[pos + 1] < 128 THEN Ok(At(b[pos + 1], pos + 1))
    ELSE Try(take_varint(b, pos + 1, max - 1),
             LAMBDA r : Ok(At((b[pos + 1] - 128) + 128 * r.val, r.pos)))

\* reads n raw bytes at pos
take_n(b, pos, n) ==
    IF ~CanRead(b, pos, n) THEN Err("codec") ELSE Ok(At(ReadAt(b, pos, n), pos + n))

\* reads a length-prefixed byte string at pos
take_bytes(b, pos) == Try(take_varint(b, pos, 10), LAMBDA l : take_n(b, l.pos, l.val))

put_bytes(s) == varint(Len(s)) \o s

\* postcard::to_stdvec(&VaultHeader)
encode_header(h) ==
    h.magic \o varint(h.version)
      \o varint(h.kdf_params.mem_kib) \o varint(h.kdf_params.iterations)
      \o varint(h.kdf_params.parallelism)
      \o h.salt_kek \o put_bytes(h.wrapped_dek)

\* postcard::from_bytes::<VaultHeader>
decode_header(b) ==
    Try(take_n(b, 0, 5), LAMBDA magic :
    Try(take_varint(b, magic.pos, 3), LAMBDA version :
    Try(take_varint(b, version.pos, 5), LAMBDA mem_kib :
    Try(take_varint(b, mem_kib.pos, 5), LAMBDA iterations :
    Try(take_varint(b, iterations.pos, 5), LAMBDA parallelism :
    Try(take_n(b, parallelism.pos, 32), LAMBDA salt_kek :
    Try(take_bytes(b, salt_kek.pos), LAMBDA wrapped_dek :
        IF version.val >= 65536 THEN Err("codec")
        ELSE Ok([magic |-> magic.val, version |-> version.val,
                 kdf_params |-> [mem_kib |-> mem_kib.val, iterations |-> iterations.val,
                                 parallelism |-> parallelism.val],
                 salt_kek |-> salt_kek.val, wrapped_dek |-> wrapped_dek.val]))))))))

\* postcard::to_stdvec(&VaultEntry): the Uuid serializes as a byte string
encode_entry(e) ==
    put_bytes(e.id) \o put_bytes(e.title) \o put_bytes(e.username) \o put_bytes(e.password)

\* a decoder whose field order differs from the encoder's: username before title
decode_entry_reordered(b) ==
    Try(take_bytes(b, 0), LAMBDA id :
    Try(take_bytes(b, id.pos), LAMBDA username :
    Try(take_bytes(b, username.pos), LAMBDA title :
    Try(take_bytes(b, title.pos), LAMBDA password :
        IF Len(id.val) # 16 THEN Err("codec")
        ELSE Ok([id |-> id.val, title |-> title.val, username |-> username.val,
                 password |-> password.val])))))

\* postcard::from_bytes::<VaultEntry>
decode_entry(b) ==
    Try(take_bytes(b, 0), LAMBDA id :
    Try(take_bytes(b, id.pos), LAMBDA title :
    Try(take_bytes(b, title.pos), LAMBDA username :
    Try(take_bytes(b, username.pos), LAMBDA password :
        IF Len(id.val) # 16 THEN Err("codec")
        ELSE Ok([id |-> id.val, title |-> title.val, username |-> username.val,
                 password |-> password.val])))))

-----------------------------------------------------------------------------
(* crates/vault-store: VaultStore *)

Magic == <<83, 86, 76, 84, 49>>      \* b"SVLT1"

NoFile == [exists |-> FALSE, bytes |-> << >>]

\* a call's effect on the file together with its result
Effect(f, r) == [file |-> f, res |-> r]

\* Read::read_exact at a position of the file
read_exact(bytes, pos, n) ==
    IF CanRead(bytes, pos, n) THEN Ok(ReadAt(bytes, pos, n)) ELSE Err("UnexpectedEof")

\* a deletion test that looks at the title alone
IsTombstone_title_only(e) == e.title = << >>

\* a VaultEntry whose three strings are empty marks its id as deleted
IsTombstone(e) == e.title = << >> /\ e.username = << >> /\ e.password = << >>

\* create with File::create in place of create_new(true): an existing file is replaced
create_truncating(f, header) ==
    Effect([exists |-> TRUE,
            bytes  |-> to_le_bytes(Len(encode_header(header))) \o encode_header(header)],
           Ok("unit"))

\* VaultStore::create: what is on disk afterwards, and the result
create(f, header) ==
    IF f.exists
    THEN Effect(f, Err("AlreadyExists"))                 \* create_new(true)
    ELSE Effect([exists |-> TRUE,
                 bytes  |-> to_le_bytes(Len(encode_header(header))) \o encode_header(header)],
                Ok("unit"))

\* open without the magic and version test
open_unvalidated(f) ==
    IF ~f.exists THEN Err("NotFound")
    ELSE Try(read_exact(f.bytes, 0, 4), LAMBDA len_bytes :
         Try(read_exact(f.bytes, 4, from_le_bytes(len_bytes)), LAMBDA buf :
             map_err(decode_header(buf), "InvalidData")))

\* VaultStore::open: the store handle (its decoded header), or an error
open(f) ==
    IF ~f.exists THEN Err("NotFound")
    ELSE Try(read_exact(f.bytes, 0, 4), LAMBDA len_bytes :
         Try(read_exact(f.bytes, 4, from_le_bytes(len_bytes)), LAMBDA buf :
         Try(map_err(decode_header(buf), "InvalidData"), LAMBDA header :
             IF header.magic # Magic \/ header.version # 1
             THEN Err("invalid vault header")
             ELSE Ok(header))))

\* the frame write_entry appends: len | id(16) | nonce(12) | ct
record_frame(dek, entry, nonce) ==
    LET ct == aead_encrypt_aes_gcm(derive_item_key(dek, entry.id), nonce,
                                   encode_entry(entry), entry.id)
    IN  to_le_bytes(16 + 12 + Len(ct)) \o entry.id \o nonce \o ct

\* write_entry with the file opened write(true).truncate(true) in place of append(true)
write_entry_truncating(f, dek, entry, nonce) ==
    IF ~f.exists THEN Effect(f, Err("NotFound"))
    ELSE Effect([exists |-> TRUE, bytes |-> record_frame(dek, entry, nonce)], Ok("unit"))

\* VaultStore::write_entry: the file is opened for append and the frame written
write_entry(f, dek, entry, nonce) ==
    IF ~f.exists THEN Effect(f, Err("NotFound"))
    ELSE Effect([exists |-> TRUE, bytes |-> f.bytes \o record_frame(dek, entry, nonce)],
                Ok("unit"))

\* a replay loop that steps over a short length field and reads on
RECURSIVE replay_past_short(_, _, _, _)
replay_past_short(b, dek, pos, out) ==
    IF ~CanRead(b, pos, 4) THEN Ok(out)
    ELSE LET clen == from_le_bytes(ReadAt(b, pos, 4))
         IN  IF clen < 16 + 12 + 16 THEN replay_past_short(b, dek, pos + 4, out)
             ELSE Try(read_exact(b, pos + 4, 16), LAMBDA id_buf :
                  Try(read_exact(b, pos + 4 + 16, 12), LAMBDA n :
                  Try(read_exact(b, pos + 4 + 16 + 12, clen - 16 - 12), LAMBDA ct :
                  Try(aead_decrypt_aes_gcm(derive_item_key(dek, id_buf), ct, n, id_buf),
                      LAMBDA pt :
                  Try(map_err(decode_entry(pt), "InvalidData"), LAMBDA entry :
                      replay_past_short(b, dek, pos + 4 + clen, Append(out, entry)))))))

\* the replay loop of read_all_entries, from byte offset pos with out collected so far
RECURSIVE replay(_, _, _, _)
replay(b, dek, pos, out) ==
    IF ~CanRead(b, pos, 4) THEN Ok(out)                 \* UnexpectedEof => break
    ELSE LET clen == from_le_bytes(ReadAt(b, pos, 4))
         IN  IF clen < 16 + 12 + 16 THEN Ok(out)        \* break
             ELSE Try(read_exact(b, pos + 4, 16), LAMBDA id_buf :
                  Try(read_exact(b, pos + 4 + 16, 12), LAMBDA n :
                  Try(read_exact(b, pos + 4 + 16 + 12, clen - 16 - 12), LAMBDA ct :
                  Try(aead_decrypt_aes_gcm(derive_item_key(dek, id_buf), ct, n, id_buf),
                      LAMBDA pt :
                  Try(map_err(decode_entry(pt), "InvalidData"), LAMBDA entry :
                      replay(b, dek, pos + 4 + clen, Append(out, entry)))))))

\* VaultStore::read_all_entries
read_all_entries(f, dek) ==
    IF ~f.exists THEN Err("NotFound")
    ELSE Try(read_exact(f.bytes, 0, 4), LAMBDA len_bytes :
             replay(f.bytes, dek, 4 + from_le_bytes(len_bytes), << >>))

\* list_entries that leaves the tombstones out
list_entries_live(f, dek) ==
    Try(read_all_entries(f, dek), LAMBDA entries :
        Ok(SelectSeq([i \in 1..Len(entries) |-> <<entries[i].id, entries[i].title>>],
                     LAMBDA p : p[2] # << >>)))

\* VaultStore::list_entries
list_entries(f, dek) ==
    Try(read_all_entries(f, dek), LAMBDA entries :
        Ok([i \in 1..Len(entries) |-> <<entries[i].id, entries[i].title>>]))

\* find without rev(): the first entry with the id
find_first(entries, id) ==
    LET hits == {i \in 1..Len(entries) : entries[i].id = id}
    IN  IF hits = {} THEN [some |-> FALSE, entry |-> << >>]
        ELSE [some |-> TRUE,
              entry |-> entries[CHOOSE i \in hits : \A j \in hits : i <= j]]

\* entries.into_iter().rev().find(|e| e.id == id)
rfind(entries, id) ==
    LET hits == {i \in 1..Len(entries) : entries[i].id = id}
    IN  IF hits = {} THEN [some |-> FALSE, entry |-> << >>]
        ELSE [some |-> TRUE,
              entry |-> entries[CHOOSE i \in hits : \A j \in hits : j <= i]]

\* VaultStore::get_entry
get_entry(f, dek, id) ==
    Try(read_all_entries(f, dek), LAMBDA entries : Ok(rfind(entries, id)))

\* VaultStore::update_entry
update_entry(f, dek, entry, nonce) == write_entry(f, dek, entry, nonce)

\* delete_entry that reports success without appending
delete_entry_unwritten(f, dek, id, nonce) == Effect(f, Ok("unit"))

\* VaultStore::delete_entry
delete_entry(f, dek, id, nonce) ==
    write_entry(f, dek, [id |-> id, title |-> << >>, username |-> << >>, password |-> << >>],
                nonce)

EmptyMap == [k \in {} |-> << >>]

MapInsert(m, k, v) == [x \in DOMAIN m \cup {k} |-> IF x = k THEN v ELSE m[x]]

MapRemove(m, k) == [x \in DOMAIN m \ {k} |-> m[x]]

\* the loop of list_active_entries without its tombstone branch
RECURSIVE active_entries_insert_only(_, _, _)
active_entries_insert_only(entries, i, m) ==
    IF i > Len(entries) THEN m
    ELSE active_entries_insert_only(entries, i + 1,
             MapInsert(m, entries[i].id, entries[i].title))

\* the loop of list_active_entries over the replayed entries, from index i
RECURSIVE active_entries(_, _, _)
active_entries(entries, i, m) ==
    IF i > Len(entries) THEN m
    ELSE active_entries(entries, i + 1,
             IF IsTombstone(entries[i]) THEN MapRemove(m, entries[i].id)
             ELSE MapInsert(m, entries[i].id, entries[i].title))

\* VaultStore::list_active_entries: the map it collects (Ok), or the replay's error
list_active_entries(f, dek) ==
    Try(read_all_entries(f, dek), LAMBDA entries : Ok(active_entries(entries, 1, EmptyMap)))

\* the orders in which a HashMap may hand out its pairs
HashMapIter(m) ==
    LET pairs == {<<k, m[k]>> : k \in DOMAIN m}
        n     == Cardinality(pairs)
    IN  {s \in [1..n -> pairs] : \A i, j \in 1..n : i # j => s[i] # s[j]}

-----------------------------------------------------------------------------
(* Uuid <-> string, as the commands of main.rs convert ids *)

HexChars == <<"0", "1", "2", "3", "4", "5", "6", "7", "8", "9", "a", "b", "c", "d", "e", "f">>

UpperHexChars == <<"0", "1", "2", "3", "4", "5", "6", "7", "8", "9", "A", "B", "C", "D", "E", "F">>

\* Uuid::to_string: the hyphenated lower-case form, 8-4-4-4-12
to_string(id) ==
    LET hex == [i \in 1..32 |->
                   IF i % 2 = 1 THEN HexChars[(id[(i + 1) \div 2] \div 16) + 1]
                   ELSE HexChars[(id[i \div 2] % 16) + 1]]
    IN  SubSeq(hex, 1, 8) \o <<"-">> \o SubSeq(hex, 9, 12) \o <<"-">> \o SubSeq(hex, 13, 16)
          \o <<"-">> \o SubSeq(hex, 17, 20) \o <<"-">> \o SubSeq(hex, 21, 32)

IsHexChar(c) == \E i \in 1..16 : HexChars[i] = c \/ UpperHexChars[i] = c

HexVal(c) == (CHOOSE i \in 1..16 : HexChars[i] = c \/ UpperHexChars[i] = c) - 1

\* Uuid::parse_str on the hyphenated and the simple form
parse_str(s) ==
    LET digits ==
            IF Len(s) = 36 /\ s[9] = "-" /\ s[14] = "-" /\ s[19] = "-" /\ s[24] = "-"
            THEN SubSeq(s, 1, 8) \o SubSeq(s, 10, 13) \o SubSeq(s, 15, 18)
                   \o SubSeq(s, 20, 23) \o SubSeq(s, 25, 36)
            ELSE s
    IN  IF Len(digits) # 32 \/ \E i \in 1..Len(digits) : ~IsHexChar(digits[i])
        THEN Err("invalid UUID")
        ELSE Ok([i \in 1..16 |-> 16 * HexVal(digits[2 * i - 1]) + HexVal(digits[2 * i])])

-----------------------------------------------------------------------------
(* Inputs *)

\* a version-4 (random) UUID: version and variant bits set, every other byte k
Uuid(k) == [i \in 1..16 |-> IF i = 7 THEN 64 + k ELSE IF i = 9 THEN 128 + k ELSE k]

Ids == {Uuid(1), Uuid(2)}

Masters == {<<104, 49>>, <<104, 50>>}

Salts == {Rep(9, 32)}

DEKs == {Rep(1, 32), Rep(2, 32)}

Nonces == {Rep(5, 12)}

\* title, username, password: a tombstone, a title alone, a username alone, all three
Fields == { <<<< >>, << >>, << >>>>, <<<<97>>, << >>, << >>>>,
            <<<< >>, <<117>>, << >>>>, <<<<98>>, <<117>>, <<112>>>> }

Entry(id, f) == [id |-> id, title |-> f[1], username |-> f[2], password |-> f[3]]

\* id strings a caller passes: the ids as strings, and a malformed one
IdStrings == {to_string(id) : id \in Ids} \cup {Take(to_string(Uuid(1)), 35)}

-----------------------------------------------------------------------------
(* State *)

None == [some |-> FALSE, val |-> 0]

Some(v) == [some |-> TRUE, val |-> v]

\* a Mutex whose holder panicked: every later lock() is Err, so `if let Ok(..)` skips
Poisoned == [some |-> FALSE, val |-> -1]

IsPoisoned(m) == ~m.some /\ m.val = -1

Call(op, arg, res) == [op |-> op, arg |-> arg, res |-> res]

\* no call is in progress and no result is pending
NoCall == Call("idle", << >>, Ok("unit"))

\* nothing on the clipboard
EmptyClipboard == [text |-> "", at |-> 0]

Init ==
    /\ file = NoFile
    /\ ret = NoCall
    /\ written = << >>
    /\ damage = << >>
    /\ vault = [created |-> FALSE, master |-> << >>, dek |-> << >>]
    /\ is_locked = TRUE                 \* main: Arc::new(Mutex::new(true))
    /\ idle_detector = None
    /\ clipboard_manager = None
    /\ now = 0
    /\ clipboard = EmptyClipboard
    /\ timers = << >>

Session == <<is_locked, idle_detector, clipboard_manager, now, clipboard, timers>>

\* the store handle exists: VaultStore::open returned one for the path
HaveStore == IsOk(open(file))

\* The core is single-threaded and synchronous: one call at a time.  A call
\* leaves its result in ret; the caller takes it before the next call starts.
Idle == ret.op = "idle"

Return ==
    /\ ~Idle
    /\ ret' = NoCall
    /\ UNCHANGED <<file, written, damage, vault, Session>>

-----------------------------------------------------------------------------
(* Operations of VaultStore, called on an opened store.  The writer holds the *)
(* DEK it unwrapped from the header; a reader may hold any key.               *)

VaultStore_open ==
    /\ Idle
    /\ ret' = Call("open", << >>, open(file))
    /\ UNCHANGED <<file, written, damage, vault, Session>>

VaultStore_write_entry(entry, nonce) ==
    /\ Idle
    /\ HaveStore /\ Len(written) < MaxRecords
    /\ LET w == write_entry(file, vault.dek, entry, nonce)
       IN  /\ file' = w.file
           /\ ret' = Call("write_entry", entry, w.res)
           /\ written' = IF IsOk(w.res) THEN Append(written, entry) ELSE written
    /\ UNCHANGED <<damage, vault, Session>>

VaultStore_update_entry(entry, nonce) ==
    /\ Idle
    /\ HaveStore /\ Len(written) < MaxRecords
    /\ LET w == update_entry(file, vault.dek, entry, nonce)
       IN  /\ file' = w.file
           /\ ret' = Call("update_entry", entry, w.res)
           /\ written' = IF IsOk(w.res) THEN Append(written, entry) ELSE written
    /\ UNCHANGED <<damage, vault, Session>>

VaultStore_delete_entry(id, nonce) ==
    /\ Idle
    /\ HaveStore /\ Len(written) < MaxRecords
    /\ LET w == delete_entry(file, vault.dek, id, nonce)
       IN  /\ file' = w.file
           /\ ret' = Call("delete_entry", id, w.res)
           /\ written' = IF IsOk(w.res)
                         THEN Append(written, Entry(id, <<<< >>, << >>, << >>>>))
                         ELSE written
    /\ UNCHANGED <<damage, vault, Session>>

VaultStore_read_all_entries(dek) ==
    /\ Idle
    /\ HaveStore
    /\ ret' = Call("read_all_entries", dek, read_all_entries(file, dek))
    /\ UNCHANGED <<file, written, damage, vault, Session>>

VaultStore_list_entries(dek) ==
    /\ Idle
    /\ HaveStore
    /\ ret' = Call("list_entries", dek, list_entries(file, dek))
    /\ UNCHANGED <<file, written, damage, vault, Session>>

VaultStore_get_entry(dek, id) ==
    /\ Idle
    /\ HaveStore
    /\ ret' = Call("get_entry", <<dek, id>>, get_entry(file, dek, id))
    /\ UNCHANGED <<file, written, damage, vault, Session>>

VaultStore_list_active_entries(dek) ==
    /\ Idle
    /\ HaveStore
    /\ LET m == list_active_entries(file, dek)
       IN  IF IsOk(m)
           THEN \E order \in HashMapIter(m.val) :
                    ret' = Call("list_active_entries", dek, Ok(order))
           ELSE ret' = Call("list_active_entries", dek, m)
    /\ UNCHANGED <<file, written, damage, vault, Session>>

-----------------------------------------------------------------------------
(* The commands of apps/desktop/src-tauri/src/main.rs *)

\* the ? operator in a command that has not written to the file yet
TryKeep(f, r, K(_)) == IF IsOk(r) THEN K(r.val) ELSE Effect(f, r)

\* what a command returns once its write succeeded
Then(w, v) == IF IsOk(w.res) THEN Effect(w.file, v) ELSE w

\* open the store, derive the KEK, unwrap the DEK: the first lines of every command
key_ladder(f, master_password) ==
    Try(open(f), LAMBDA vs :
        unwrap_key_aes_gcm(derive_kek(master_password, vs.kdf_params, vs.salt_kek),
                           vs.wrapped_dek))

main_create_vault(f, master_password, salt, dek, nonce) ==
    create(f, [magic |-> Magic, version |-> 1, kdf_params |-> ArgonParams,
               salt_kek |-> salt,
               wrapped_dek |-> wrap_key_aes_gcm(derive_kek(master_password, ArgonParams, salt),
                                                dek, nonce)])

main_create_entry(f, master_password, entry, nonce) ==
    TryKeep(f, key_ladder(f, master_password), LAMBDA dek :
        Then(write_entry(f, dek, entry, nonce), Ok(to_string(entry.id))))

main_list_entries(f, master_password) ==
    Try(key_ladder(f, master_password), LAMBDA dek :
    Try(list_entries(f, dek), LAMBDA entries :
        Ok([i \in 1..Len(entries) |-> <<to_string(entries[i][1]), entries[i][2]>>])))

main_read_entry(f, master_password, entry_id) ==
    Try(key_ladder(f, master_password), LAMBDA dek :
    Try(parse_str(entry_id), LAMBDA id :
    Try(get_entry(f, dek, id), LAMBDA got :
        IF got.some THEN Ok(got.entry) ELSE Err("Entry not found"))))

main_update_entry(f, master_password, id, fields, nonce) ==
    TryKeep(f, key_ladder(f, master_password), LAMBDA dek :
    TryKeep(f, parse_str(id), LAMBDA id_uuid :
        Then(update_entry(f, dek, Entry(id_uuid, fields), nonce), Ok(TRUE))))

\* delete_entry with Uuid::parse_str(&id).unwrap_or_default(): a malformed id
\* becomes the nil id
main_delete_entry_nil_id(f, master_password, id, nonce) ==
    TryKeep(f, key_ladder(f, master_password), LAMBDA dek :
        Then(delete_entry(f, dek,
                          IF IsOk(parse_str(id)) THEN parse_str(id).val ELSE Rep(0, 16),
                          nonce),
             Ok(TRUE)))

main_delete_entry(f, master_password, id, nonce) ==
    TryKeep(f, key_ladder(f, master_password), LAMBDA dek :
    TryKeep(f, parse_str(id), LAMBDA id_uuid :
        Then(delete_entry(f, dek, id_uuid, nonce), Ok(TRUE))))

cmd_create_vault(master_password, salt, dek, nonce) ==
    /\ Idle
    /\ LET r == main_create_vault(file, master_password, salt, dek, nonce)
       IN  /\ file' = r.file
           /\ ret' = Call("create_vault", master_password, r.res)
           /\ vault' = IF IsOk(r.res)
                       THEN [created |-> TRUE, master |-> master_password, dek |-> dek]
                       ELSE vault
    /\ UNCHANGED <<written, damage, Session>>

\* unlock_vault with the state update moved before the key ladder's result is tested
cmd_unlock_vault_early(master_password) ==
    /\ Idle
    /\ idle_detector' = IF IsPoisoned(idle_detector) THEN idle_detector
                        ELSE Some([last_activity |-> now])
    /\ clipboard_manager' = Some([clear_timeout |-> 30])
    /\ is_locked' = FALSE
    /\ ret' = Call("unlock_vault", master_password,
                   IF IsOk(key_ladder(file, master_password)) THEN Ok(TRUE)
                   ELSE key_ladder(file, master_password))
    /\ UNCHANGED <<file, written, damage, vault, now, clipboard, timers>>

cmd_unlock_vault(master_password) ==
    /\ Idle
    /\ LET dek == key_ladder(file, master_password)
       IN  IF IsOk(dek)
           THEN /\ idle_detector' = IF IsPoisoned(idle_detector) THEN idle_detector
                                   ELSE Some([last_activity |-> now])  \* IdleDetector::new(300)
                /\ clipboard_manager' = Some([clear_timeout |-> 30])   \* ClipboardManager::new(30)
                /\ is_locked' = FALSE
                /\ ret' = Call("unlock_vault", master_password, Ok(TRUE))
           ELSE /\ ret' = Call("unlock_vault", master_password, dek)
                /\ UNCHANGED <<is_locked, idle_detector, clipboard_manager>>
    /\ UNCHANGED <<file, written, damage, vault, now, clipboard, timers>>

cmd_create_entry(master_password, fields, id, nonce) ==
    /\ Idle
    /\ Len(written) < MaxRecords
    /\ LET r == main_create_entry(file, master_password, Entry(id, fields), nonce)
       IN  /\ file' = r.file
           /\ ret' = Call("create_entry", <<master_password, Entry(id, fields)>>, r.res)
           /\ written' = IF IsOk(r.res) THEN Append(written, Entry(id, fields)) ELSE written
    /\ UNCHANGED <<damage, vault, Session>>

cmd_list_entries(master_password) ==
    /\ Idle
    /\ ret' = Call("list_entries_cmd", master_password, main_list_entries(file, master_password))
    /\ UNCHANGED <<file, written, damage, vault, Session>>

cmd_read_entry(master_password, entry_id) ==
    /\ Idle
    /\ ret' = Call("read_entry", <<master_password, entry_id>>,
                   main_read_entry(file, master_password, entry_id))
    /\ UNCHANGED <<file, written, damage, vault, Session>>

cmd_update_entry(master_password, id, fields, nonce) ==
    /\ Idle
    /\ Len(written) < MaxRecords
    /\ LET r == main_update_entry(file, master_password, id, fields, nonce)
       IN  /\ file' = r.file
           /\ ret' = Call("update_entry_cmd", <<master_password, id, fields>>, r.res)
           /\ written' = IF IsOk(r.res)
                         THEN Append(written, Entry(parse_str(id).val, fields))
                         ELSE written
    /\ UNCHANGED <<damage, vault, Session>>

cmd_delete_entry(master_password, id, nonce) ==
    /\ Idle
    /\ Len(written) < MaxRecords
    /\ LET r == main_delete_entry(file, master_password, id, nonce)
       IN  /\ file' = r.file
           /\ ret' = Call("delete_entry_cmd", <<master_password, id>>, r.res)
           /\ written' = IF IsOk(r.res)
                         THEN Append(written, Entry(parse_str(id).val, <<<< >>, << >>, << >>>>))
                         ELSE written
    /\ UNCHANGED <<damage, vault, Session>>

-----------------------------------------------------------------------------

\* the log engine, on a vault made by create_vault
Next ==
    \/ \E m \in Masters, s \in Salts, d \in DEKs, n \in Nonces : cmd_create_vault(m, s, d, n)
    \/ VaultStore_open
    \/ \E id \in Ids, f \in Fields, n \in Nonces : VaultStore_write_entry(Entry(id, f), n)
    \/ \E id \in Ids, f \in Fields, n \in Nonces : VaultStore_update_entry(Entry(id, f), n)
    \/ \E id \in Ids, n \in Nonces : VaultStore_delete_entry(id, n)
    \/ \E d \in DEKs : VaultStore_read_all_entries(d)
    \/ \E d \in DEKs : VaultStore_list_entries(d)
    \/ \E d \in DEKs, id \in Ids : VaultStore_get_entry(d, id)
    \/ \E d \in DEKs : VaultStore_list_active_entries(d)
    \/ Return

Spec == Init /\ [][Next]_vars

\* the commands the host registers with the dispatcher
NextCore ==
    \/ \E m \in Masters, s \in Salts, d \in DEKs, n \in Nonces : cmd_create_vault(m, s, d, n)
    \/ \E m \in Masters : cmd_unlock_vault(m)
    \/ \E m \in Masters, f \in Fields, id \in Ids, n \in Nonces : cmd_create_entry(m, f, id, n)
    \/ \E m \in Masters : cmd_list_entries(m)
    \/ \E m \in Masters, s \in IdStrings : cmd_read_entry(m, s)
    \/ \E m \in Masters, s \in IdStrings, f \in Fields, n \in Nonces : cmd_update_entry(m, s, f, n)
    \/ \E m \in Masters, s \in IdStrings, n \in Nonces : cmd_delete_entry(m, s, n)
    \/ Return

SpecCore == Init /\ [][NextCore]_vars

-----------------------------------------------------------------------------
(* Properties *)

\* the set of elements of a sequence
Range(s) == {s[i] : i \in 1..Len(s)}

\* the index of the last record appended for id, or 0
LastIndex(w, id) ==
    IF \E i \in 1..Len(w) : w[i].id = id
    THEN CHOOSE i \in 1..Len(w) : w[i].id = id /\ \A j \in (i + 1)..Len(w) : w[j].id # id
    ELSE 0

AllEmpty(e) == Len(e.title) = 0 /\ Len(e.username) = 0 /\ Len(e.password) = 0

\* The reference view of a sequence of writes: for each id the final occurrence
\* wins, and an id whose final occurrence has three empty strings is absent.
RefPairs(w) ==
    {<<w[i].id, w[i].title>> : i \in {j \in 1..Len(w) : j = LastIndex(w, w[j].id) /\ ~AllEmpty(w[j])}}

\* C1: last-write-wins.  After any sequence of write_entry / update_entry /
\* delete_entry on a created vault, list_active_entries with the vault's DEK
\* returns the (id, title) pairs of the reference view, each exactly once.
C1_LastWriteWins ==
    (ret.op = "list_active_entries" /\ ret.arg = vault.dek)
        => /\ IsOk(ret.res)
           /\ Range(ret.res.val) = RefPairs(written)
           /\ Len(ret.res.val) = Cardinality(RefPairs(written))

\* C1 witness: the active view was listed after an id was written and then
\* overwritten with another title
C1_Witness ==
    /\ ret.op = "list_active_entries" /\ ret.arg = vault.dek
    /\ Len(written) = 2 /\ written[1].id = written[2].id
    /\ ~AllEmpty(written[1]) /\ ~AllEmpty(written[2])
    /\ written[1].title # written[2].title
    /\ IsOk(ret.res) /\ Len(ret.res.val) = 1

\* the byte offset at which the records start: 4 + header_len
RecordsStart(bytes) == 4 + from_le_bytes(Take(bytes, 4))

Truncated(f, off) == [exists |-> TRUE, bytes |-> Take(f.bytes, off)]

IsOkPrefixOf(r, w) == IsOk(r) /\ Len(r.val) <= Len(w) /\ r.val = Take(w, Len(r.val))

\* C2: truncation tolerance.  Cutting the vault file at any byte offset from
\* 4 + header_len up to (not including) its end makes read_all_entries return
\* Ok with a prefix of the full entry list.
C2_TruncationTolerance ==
    file.exists =>
        \A off \in RecordsStart(file.bytes)..(Len(file.bytes) - 1) :
            IsOkPrefixOf(read_all_entries(Truncated(file, off), vault.dek), written)

\* C3: replay fidelity.  After create and any sequence of successful appends,
\* read_all_entries with the same DEK returns exactly the entries written, in
\* append order and equal field by field.
C3_ReplayFidelity ==
    (ret.op = "read_all_entries" /\ ret.arg = vault.dek)
        => IsOk(ret.res) /\ ret.res.val = written

\* C3 witness: a replay of a log of two different entries
C3_Witness ==
    /\ ret.op = "read_all_entries" /\ ret.arg = vault.dek
    /\ Len(written) = 2 /\ written[1] # written[2]
    /\ ~AllEmpty(written[1]) /\ written[2].username # << >>
    /\ IsOk(ret.res)

\* the strings of the (id, title) pairs the core command hands to the caller
RefStringPairs(w) == {<<to_string(p[1]), p[2]>> : p \in RefPairs(w)}

\* C4: the core command list_entries(path, master_password) returns the active
\* set: one pair per id whose latest record is not a tombstone, with its latest title.
C4_ListEntriesIsActiveSet ==
    (ret.op = "list_entries_cmd" /\ ret.arg = vault.master /\ IsOk(ret.res))
        => /\ Range(ret.res.val) = RefStringPairs(written)
           /\ Len(ret.res.val) = Cardinality(RefStringPairs(written))

AuthenticationFailed == Err("decryption failure - wrong password or corrupted data")

\* C5: on a vault made by create_vault(path, m), unlock_vault(path, m) succeeds
\* and unlock_vault(path, m2) with any other m2 returns the authentication failure.
C5_UnlockOnlyWithMaster ==
    (vault.created /\ ret.op = "unlock_vault")
        => IF ret.arg = vault.master
           THEN IsOk(ret.res)
           ELSE ret.res.kind = "Err" /\ ret.res = AuthenticationFailed

\* C5 witness: the vault was unlocked with its master password, and a later
\* unlock with another password has been refused
C5_Witness ==
    /\ vault.created /\ ret.op = "unlock_vault"
    /\ ret.arg # vault.master /\ ret.res.kind = "Err"
    /\ ~is_locked

\* C6: append-only.  Every step of the engine leaves the bytes that were in the
\* file before it as a prefix of the bytes in the file after it.
C6_AppendOnly ==
    [][file.exists => (file'.exists /\ IsPrefix(file.bytes, file'.bytes))]_vars

\* C6 witness: the log has been appended to twice, the second time by delete_entry
C6_Witness ==
    /\ ret.op = "delete_entry" /\ IsOk(ret.res)
    /\ Len(written) = 2
    /\ Len(file.bytes) > RecordsStart(file.bytes)

\* C7: when a complete record that is not the trailing one fails AEAD
\* authentication during replay (here: the reader holds another DEK),
\* read_all_entries returns an error value to its caller.
C7_MidLogFailureIsError ==
    (ret.op = "read_all_entries" /\ ret.arg # vault.dek /\ Len(written) >= 2)
        => ret.res.kind = "Err"

\* C8: get_entry returns the entry of the last record in file order with the
\* requested id (a tombstone verbatim), and absent exactly when no record has the id.
C8_GetEntryIsLast ==
    (ret.op = "get_entry" /\ ret.arg[1] = vault.dek)
        => /\ IsOk(ret.res)
           /\ ret.res.val.some <=> (LastIndex(written, ret.arg[2]) # 0)
           /\ ret.res.val.some => ret.res.val.entry = written[LastIndex(written, ret.arg[2])]

\* C8 witness: get_entry returned the tombstone that follows a live record of the id
C8_Witness ==
    /\ ret.op = "get_entry" /\ ret.arg[1] = vault.dek
    /\ Len(written) = 2
    /\ written[1].id = ret.arg[2] /\ written[2].id = ret.arg[2]
    /\ ~AllEmpty(written[1]) /\ AllEmpty(written[2])
    /\ IsOk(ret.res) /\ ret.res.val.some /\ AllEmpty(ret.res.val.entry)

\* C9: read_entry returns "Entry not found" for every id that has no
\* non-tombstone record in the log: never written, or only tombstones.
C9_ReadEntryNotFound ==
    (/\ ret.op = "read_entry" /\ ret.arg[1] = vault.master
     /\ IsOk(parse_str(ret.arg[2]))
     /\ \A i \in 1..Len(written) :
            written[i].id = parse_str(ret.arg[2]).val => AllEmpty(written[i]))
        => ret.res.kind = "Err" /\ ret.res = Err("Entry not found")

\* the header create_vault builds from its inputs
HeaderOf(master, salt, dek, nonce) ==
    [magic |-> Magic, version |-> 1, kdf_params |-> ArgonParams, salt_kek |-> salt,
     wrapped_dek |-> nonce \o GcmSeal(derive_kek(master, ArgonParams, salt), nonce, dek, << >>)]

Framed(h) == to_le_bytes(Len(h)) \o h

\* C10: exclusive create.  On a path that exists, create fails with
\* AlreadyExists and leaves the file as it was; on a path that does not exist
\* it writes header_len || encoded_header and nothing else, so a replay right
\* after it returns the empty list.
C10_ExclusiveCreate ==
    [][ret'.op = "create_vault" =>
          IF file.exists
          THEN ret'.res.kind = "Err" /\ ret'.res = Err("AlreadyExists") /\ file' = file
          ELSE /\ IsOk(ret'.res) /\ file'.exists
               /\ \E s \in Salts, n \in Nonces :
                      file'.bytes = Framed(encode_header(HeaderOf(ret'.arg, s, vault'.dek, n)))
               /\ \A d \in DEKs : read_all_entries(file', d).kind = "Ok"
                                  /\ Len(read_all_entries(file', d).val) = 0]_vars

\* C10 witness: create was refused on a vault that holds records
C10_Witness ==
    /\ ret.op = "create_vault" /\ ret.res.kind = "Err"
    /\ Len(written) > 0 /\ file.exists

-----------------------------------------------------------------------------
(* Vault files as a caller may find them at a path: written by create_vault,  *)
(* by another program or version, or damaged.                                 *)

Master0 == <<104, 49>>

Dek0 == Rep(1, 32)

Kek0 == derive_kek(Master0, ArgonParams, Rep(9, 32))

\* the magics and versions a header on disk carries
FileMagics == {Magic, <<83, 86, 76, 84, 50>>}

FileVersions == {0, 1, 2}

\* key blobs: the 32-byte DEK wrapped, a 31-byte and a 33-byte plaintext
\* wrapped under the same KEK, and a blob cut below nonce + tag
WrappedKeys ==
    {wrap_key_aes_gcm(Kek0, pt, Rep(5, 12)) : pt \in {Dek0, Take(Dek0, 31), Dek0 \o <<0>>}}
        \cup {Take(wrap_key_aes_gcm(Kek0, Dek0, Rep(5, 12)), 27)}

FileHeader(magic, version, blob) ==
    [magic |-> magic, version |-> version, kdf_params |-> ArgonParams,
     salt_kek |-> Rep(9, 32), wrapped_dek |-> blob]

OnDisk(bytes) == [exists |-> TRUE, bytes |-> bytes]

\* files whose header decodes, with the given magics and versions
DecodableFiles(magics, versions) ==
    {OnDisk(Framed(encode_header(FileHeader(m, v, b)))) :
        m \in magics, v \in versions, b \in WrappedKeys}

\* files whose header buffer is complete but is not an encoded header
UndecodableFiles ==
    LET h == encode_header(FileHeader(Magic, 1, wrap_key_aes_gcm(Kek0, Dek0, Rep(5, 12))))
    IN  {OnDisk(Framed(Take(h, n))) : n \in {0, 4, 40, Len(h) - 1}}

\* files that end before the header buffer does
ShortFiles ==
    LET h == encode_header(FileHeader(Magic, 1, wrap_key_aes_gcm(Kek0, Dek0, Rep(5, 12))))
    IN  {OnDisk(Take(Framed(h), n)) : n \in {2, 50}}

Files == DecodableFiles(FileMagics, FileVersions) \cup UndecodableFiles \cup ShortFiles

InitFiles ==
    /\ file \in Files
    /\ ret = NoCall
    /\ written = << >>
    /\ damage = << >>
    /\ vault = [created |-> TRUE, master |-> Master0, dek |-> Dek0]
    /\ is_locked = TRUE
    /\ idle_detector = None
    /\ clipboard_manager = None
    /\ now = 0
    /\ clipboard = EmptyClipboard
    /\ timers = << >>

\* a direct call of core_crypto::unwrap_key_aes_gcm
core_unwrap_key_aes_gcm(kek, ct_with_nonce) ==
    /\ Idle
    /\ ret' = Call("unwrap_key_aes_gcm", <<kek, ct_with_nonce>>,
                   unwrap_key_aes_gcm(kek, ct_with_nonce))
    /\ UNCHANGED <<file, written, damage, vault, Session>>

KEKs == {Kek0, derive_kek(<<104, 50>>, ArgonParams, Rep(9, 32))}

\* the commands and the store's open, on the files found
NextFiles ==
    \/ VaultStore_open
    \/ \E k \in KEKs, b \in WrappedKeys : core_unwrap_key_aes_gcm(k, b)
    \/ \E m \in Masters : cmd_unlock_vault(m)
    \/ \E m \in Masters, n \in Nonces : cmd_create_entry(m, <<<<97>>, << >>, << >>>>, Uuid(1), n)
    \/ \E m \in Masters : cmd_list_entries(m)
    \/ \E m \in Masters, s \in IdStrings : cmd_read_entry(m, s)
    \/ \E m \in Masters, s \in IdStrings, n \in Nonces :
           cmd_update_entry(m, s, <<<<98>>, <<117>>, <<112>>>>, n)
    \/ \E m \in Masters, s \in IdStrings, n \in Nonces : cmd_delete_entry(m, s, n)
    \/ Return

SpecFiles == InitFiles /\ [][NextFiles]_vars

\* the error open reports for a header it rejects: io::ErrorKind::InvalidData
InvalidHeader(r) == r.kind = "Err" /\ r.val \in {"InvalidData", "invalid vault header"}

\* the file at the path began as one of the files of S (records may follow the header)
FoundIn(S) == \E f \in S : IsPrefix(f.bytes, file.bytes)

\* C11: open returns a store handle only for a header with magic "SVLT1" and
\* version 1; for any other magic or version, and for a header buffer that does
\* not decode, it returns the invalid-header error and no handle.
C11_OpenValidatesHeader ==
    ret.op = "open" =>
        /\ IsOk(ret.res) <=> FoundIn(DecodableFiles({Magic}, {1}))
        /\ IsOk(ret.res) => ret.res.val.magic = Magic /\ ret.res.val.version = 1
        /\ FoundIn((DecodableFiles(FileMagics, FileVersions) \ DecodableFiles({Magic}, {1}))
                        \cup UndecodableFiles)
               => InvalidHeader(ret.res)

\* C11 witness: open refused a header that decodes but carries version 2
C11_Witness ==
    /\ ret.op = "open" /\ InvalidHeader(ret.res)
    /\ FoundIn(DecodableFiles({Magic}, {2}))

-----------------------------------------------------------------------------
(* crates/core-crypto: the password generators.  A string is the sequence of  *)
(* its characters.                                                            *)

MaxLength == 4

NumSeeds == 40

uppercase_all ==
    <<"A", "B", "C", "D", "E", "F", "G", "H", "I", "J", "K", "L", "M", "N", "O", "P",
      "Q", "R", "S", "T", "U", "V", "W", "X", "Y", "Z">>

lowercase_all ==
    <<"a", "b", "c", "d", "e", "f", "g", "h", "i", "j", "k", "l", "m", "n", "o", "p",
      "q", "r", "s", "t", "u", "v", "w", "x", "y", "z">>

digits_all ==
    <<"0", "1", "2", "3", "4", "5", "6", "7", "8", "9">>

symbols_all ==
    <<"!", "@", "#", "$", "%", "^", "&", "*", "(", ")", "_", "+", "-", "=", "[", "]",
      "{", "}", "|", ";", ":", ",", ".", "<", ">", "?">>

\* the pools after "Apply ambiguous character exclusion"
uppercase_unambiguous ==
    <<"A", "B", "C", "D", "E", "F", "G", "H", "J", "K", "L", "M", "N", "P", "Q", "R",
      "S", "T", "U", "V", "W", "X", "Y", "Z">>

lowercase_unambiguous ==
    <<"a", "b", "c", "d", "e", "f", "g", "h", "j", "k", "m", "n", "p", "q", "r", "s",
      "t", "u", "v", "w", "x", "y", "z">>

digits_unambiguous ==
    <<"2", "3", "4", "5", "6", "7", "8", "9">>

\* a filtered lowercase pool that removes only i and o
lowercase_keeps_l(rules) ==
    IF ~rules.exclude_ambiguous THEN lowercase_all
    ELSE
        <<"a", "b", "c", "d", "e", "f", "g", "h", "j", "k", "l", "m", "n", "p", "q", "r",
          "s", "t", "u", "v", "w", "x", "y", "z">>

uppercase(rules) == IF rules.exclude_ambiguous THEN uppercase_unambiguous ELSE uppercase_all

lowercase(rules) == IF rules.exclude_ambiguous THEN lowercase_unambiguous ELSE lowercase_all

digits(rules) == IF rules.exclude_ambiguous THEN digits_unambiguous ELSE digits_all

symbols(rules) == symbols_all

vowels ==
    <<"a", "e", "i", "o", "u">>

consonants ==
    <<"b", "c", "d", "f", "g", "h", "j", "k", "l", "m", "n", "p", "q", "r", "s", "t",
      "v", "w", "x", "y", "z">>

\* rand::thread_rng(): a generator whose stream is fixed by its seed
next_rng(s) == (s * 75 + 74) % 65537

\* the string so far and the generator's state
Gen(pw, rng) == [pw |-> pw, rng |-> rng]

\* password.push(pool[rng.gen_range(0..pool.len())])
push_from(g, pool) == Gen(Append(g.pw, pool[(g.rng % Len(pool)) + 1]), next_rng(g.rng))

\* the require_each_type branch without its pushes
seed_never(g, enabled, pool) == g

\* one "if rules.use_X && !X.is_empty()" of the require_each_type branch
seed_if(g, enabled, pool) == IF enabled /\ Len(pool) > 0 THEN push_from(g, pool) ELSE g

\* while password.len() < rules.length
RECURSIVE fill(_, _, _)
fill(g, chars, length) ==
    IF Len(g.pw) < length THEN fill(push_from(g, chars), chars, length) ELSE g

\* password_chars.swap(i, j), indices from 0
swap(pw, i, j) ==
    [k \in 1..Len(pw) |-> IF k = i + 1 THEN pw[j + 1] ELSE IF k = j + 1 THEN pw[i + 1] ELSE pw[k]]

\* for i in (1..password_chars.len()).rev()
RECURSIVE shuffle(_, _)
shuffle(g, i) ==
    IF i < 1 THEN g
    ELSE shuffle(Gen(swap(g.pw, i, g.rng % (i + 1)), next_rng(g.rng)), i - 1)

PasswordRules(length, up, lo, di, sy, ex, req) ==
    [length |-> length, use_uppercase |-> up, use_lowercase |-> lo, use_digits |-> di,
     use_symbols |-> sy, exclude_ambiguous |-> ex, require_each_type |-> req]

charset(rules) ==
    (IF rules.use_uppercase THEN uppercase(rules) ELSE << >>)
        \o (IF rules.use_lowercase THEN lowercase(rules) ELSE << >>)
        \o (IF rules.use_digits THEN digits(rules) ELSE << >>)
        \o (IF rules.use_symbols THEN symbols(rules) ELSE << >>)

\* the require_each_type branch
seeded(rules, g) ==
    IF ~rules.require_each_type THEN g
    ELSE seed_if(seed_if(seed_if(seed_if(g, rules.use_uppercase, uppercase(rules)),
                                 rules.use_lowercase, lowercase(rules)),
                         rules.use_digits, digits(rules)),
                 rules.use_symbols, symbols(rules))

shuffled(g) == shuffle(g, Len(g.pw) - 1).pw

generate_password(rules, seed) ==
    IF Len(charset(rules)) = 0 THEN <<"p", "a", "s", "s", "w", "o", "r", "d">>
    ELSE shuffled(fill(seeded(rules, Gen(<< >>, seed)), charset(rules), rules.length))

\* the other parity: vowels first
pronounceable_pool_vowel_first(i) == IF i % 2 = 0 THEN vowels ELSE consonants

\* the pool generate_pronounceable_password draws position i from
pronounceable_pool(i) == IF i % 2 = 0 THEN consonants ELSE vowels

RECURSIVE pronounceable_from(_, _, _)
pronounceable_from(g, i, length) ==
    IF i >= length THEN g.pw
    ELSE pronounceable_from(push_from(g, pronounceable_pool(i)), i + 1, length)

generate_pronounceable_password(length, seed) == pronounceable_from(Gen(<< >>, seed), 0, length)

\* PasswordRules::safe, balanced, fast and default
preset_rules(preset) ==
    IF preset = "safe" THEN PasswordRules(20, TRUE, TRUE, TRUE, TRUE, TRUE, TRUE)
    ELSE IF preset = "balanced" THEN PasswordRules(16, TRUE, TRUE, TRUE, TRUE, FALSE, FALSE)
    ELSE IF preset = "fast" THEN PasswordRules(12, TRUE, TRUE, TRUE, FALSE, FALSE, FALSE)
    ELSE PasswordRules(16, TRUE, TRUE, TRUE, TRUE, TRUE, TRUE)

Seeds == 0..(NumSeeds - 1)

Lengths == 0..MaxLength

Presets == {"safe", "balanced", "fast", "other"}

cmd_generate_password_custom(rules, seed) ==
    /\ Idle
    /\ ret' = Call("generate_password_custom", rules, Ok(generate_password(rules, seed)))
    /\ UNCHANGED <<file, written, damage, vault, Session>>

cmd_generate_password_preset(preset, seed) ==
    /\ Idle
    /\ ret' = Call("generate_password_preset", preset,
                   Ok(generate_password(preset_rules(preset), seed)))
    /\ UNCHANGED <<file, written, damage, vault, Session>>

cmd_generate_pronounceable(length, seed) ==
    /\ Idle
    /\ ret' = Call("generate_pronounceable", length,
                   Ok(generate_pronounceable_password(length, seed)))
    /\ UNCHANGED <<file, written, damage, vault, Session>>

\* the generator commands
NextGen ==
    \/ \E length \in Lengths, up, lo, di, sy, ex, req \in BOOLEAN, seed \in Seeds :
           cmd_generate_password_custom(PasswordRules(length, up, lo, di, sy, ex, req), seed)
    \/ \E preset \in Presets, seed \in Seeds : cmd_generate_password_preset(preset, seed)
    \/ \E length \in Lengths, seed \in Seeds : cmd_generate_pronounceable(length, seed)
    \/ Return

SpecGen == Init /\ [][NextGen]_vars

-----------------------------------------------------------------------------
(* Properties of the generators *)

\* the pools a PasswordRules value enables, as sets of characters
EnabledPools(rules) ==
    (IF rules.use_uppercase THEN {Range(uppercase(rules))} ELSE {})
        \cup (IF rules.use_lowercase THEN {Range(lowercase(rules))} ELSE {})
        \cup (IF rules.use_digits THEN {Range(digits(rules))} ELSE {})
        \cup (IF rules.use_symbols THEN {Range(symbols(rules))} ELSE {})

Ambiguous == {"I", "O", "i", "l", "o", "0", "1"}

\* C12: with a pool enabled generate_password returns exactly rules.length
\* characters, each from the union of the enabled pools (also when
\* require_each_type is set and the length is below the number of enabled
\* pools); with no pool enabled it returns "password".
C12_LengthAndAlphabet ==
    ret.op = "generate_password_custom" =>
        IF EnabledPools(ret.arg) = {}
        THEN ret.res.val = <<"p", "a", "s", "s", "w", "o", "r", "d">>
        ELSE /\ Len(ret.res.val) = ret.arg.length
             /\ Range(ret.res.val) \subseteq UNION EnabledPools(ret.arg)

\* C13: with require_each_type set, the returned string has a character from
\* every enabled pool, whatever the length and the draws.
C13_EachTypePresent ==
    (ret.op = "generate_password_custom" /\ ret.arg.require_each_type)
        => \A pool \in EnabledPools(ret.arg) : Range(ret.res.val) \cap pool # {}

\* C13 witness: all four pools are required of a string asked to be one character long
C13_Witness ==
    /\ ret.op = "generate_password_custom" /\ ret.arg.require_each_type
    /\ Cardinality(EnabledPools(ret.arg)) = 4 /\ ret.arg.length = 1
    /\ \A pool \in EnabledPools(ret.arg) : Range(ret.res.val) \cap pool # {}

\* C14 as stated: with exclude_ambiguous set no character of {I,O,i,l,o,0,1}
\* is in the output, for every combination of enabled pools.
C14_NoAmbiguousAnyPools ==
    (ret.op = "generate_password_custom" /\ ret.arg.exclude_ambiguous)
        => Range(ret.res.val) \cap Ambiguous = {}

\* C14 amended: with exclude_ambiguous set and at least one pool enabled, no
\* character of {I,O,i,l,o,0,1} is in the output.
C14_NoAmbiguous ==
    (ret.op = "generate_password_custom" /\ ret.arg.exclude_ambiguous
        /\ EnabledPools(ret.arg) # {})
        => Range(ret.res.val) \cap Ambiguous = {}

\* C14 witness: letters and digits were drawn from the filtered pools
C14_Witness ==
    /\ ret.op = "generate_password_custom" /\ ret.arg.exclude_ambiguous
    /\ ret.arg.use_lowercase /\ ret.arg.use_digits /\ ret.arg.length = MaxLength
    /\ Range(ret.res.val) \cap Range(lowercase_all) # {}
    /\ Range(ret.res.val) \cap Range(digits_all) # {}

\* C15: generate_pronounceable(L) returns L characters, a consonant at every
\* even index from 0 and a vowel at every odd one.
C15_Pronounceable ==
    ret.op = "generate_pronounceable" =>
        /\ Len(ret.res.val) = ret.arg
        /\ \A k \in 1..Len(ret.res.val) :
               ret.res.val[k] \in (IF (k - 1) % 2 = 0 THEN Range(consonants) ELSE Range(vowels))

\* C15 witness: a string of the greatest length asked for was returned
C15_Witness ==
    /\ ret.op = "generate_pronounceable" /\ ret.arg = MaxLength /\ ret.arg >= 2
    /\ Len(ret.res.val) = MaxLength

-----------------------------------------------------------------------------
(* Secret buffers: what each command has allocated for key material and      *)
(* plaintext by the time it returns, and whether the code zeroized it.       *)

Buffer(name, zeroized) == [name |-> name, zeroized |-> zeroized]

\* derive_kek: out is returned by value and never zeroized, there or in the caller
derive_kek_buffers == {Buffer("kek", FALSE)}

\* unwrap_key_aes_gcm: the decrypted Vec is zeroized after the copy (the slice
\* panics before that when it is short); the returned array never is
unwrap_key_buffers(r) ==
    IF r.kind = "Ok" THEN {Buffer("unwrap_key_aes_gcm::dek", TRUE), Buffer("dek", FALSE)}
    ELSE IF r.kind = "Panic" THEN {Buffer("unwrap_key_aes_gcm::dek", FALSE)}
    ELSE {}

key_ladder_buffers(f, master_password) ==
    IF ~IsOk(open(f)) THEN {}
    ELSE derive_kek_buffers \cup unwrap_key_buffers(key_ladder(f, master_password))

\* write_entry: item_key and the serialized entry
write_entry_buffers == {Buffer("item_key", FALSE), Buffer("ser", FALSE)}

\* read_all_entries: item_key for a record read in full, pt for a record decrypted
read_all_entries_buffers(f, dek) ==
    IF Len(f.bytes) <= RecordsStart(f.bytes) THEN {}
    ELSE {Buffer("item_key", FALSE)}
           \cup (IF read_all_entries(f, dek).kind = "Ok" THEN {Buffer("pt", FALSE)} ELSE {})

\* the master password a command was called with
master_of(call) ==
    IF call.op \in {"create_vault", "unlock_vault", "list_entries_cmd"} THEN call.arg
    ELSE call.arg[1]

\* the buffers the command of ret has used, f being the file after it
command_buffers(call, f) ==
    IF call.op = "create_vault" THEN {Buffer("kek", FALSE), Buffer("dek", FALSE)}
    ELSE LET dek == key_ladder(f, master_of(call))
             got == IsOk(dek)
         IN  key_ladder_buffers(f, master_of(call)) \cup
             (IF call.op = "create_entry" /\ got THEN write_entry_buffers
              ELSE IF call.op = "list_entries_cmd" /\ got
                   THEN read_all_entries_buffers(f, dek.val)
              ELSE IF call.op = "read_entry" /\ got /\ IsOk(parse_str(call.arg[2]))
                   THEN read_all_entries_buffers(f, dek.val)
              ELSE IF call.op \in {"update_entry_cmd", "delete_entry_cmd"} /\ got
                        /\ IsOk(parse_str(call.arg[2]))
                   THEN write_entry_buffers
              ELSE {})

CoreCommands == {"create_vault", "unlock_vault", "create_entry", "list_entries_cmd",
                 "read_entry", "update_entry_cmd", "delete_entry_cmd"}

\* C16: key scrubbing.  When a core command returns, on success or on error,
\* every buffer that held the KEK, the DEK, an item key or record plaintext
\* has been zeroized.
C16_SecretsScrubbed ==
    ret.op \in CoreCommands => \A b \in command_buffers(ret, file) : b.zeroized

-----------------------------------------------------------------------------
(* Properties of the log operations and of the commands' error paths *)

\* C17: the store's list_entries is a raw projection of the log: one
\* (id, title) pair per record, in append order, duplicates of an id kept and
\* every tombstone present with the empty title.
C17_RawProjection ==
    (ret.op = "list_entries" /\ ret.arg = vault.dek)
        => /\ IsOk(ret.res)
           /\ Len(ret.res.val) = Len(written)
           /\ \A i \in 1..Len(written) :
                  ret.res.val[i] = <<written[i].id, written[i].title>>

\* C17 witness: the listing holds an id twice, the second time as a tombstone
C17_Witness ==
    /\ ret.op = "list_entries" /\ ret.arg = vault.dek /\ IsOk(ret.res)
    /\ Len(ret.res.val) = 2
    /\ ret.res.val[1][1] = ret.res.val[2][1]
    /\ Len(ret.res.val[1][2]) > 0 /\ Len(ret.res.val[2][2]) = 0

\* C18: unwrap_key returns a key only for an authenticated plaintext of exactly
\* 32 bytes: a blob that authenticates with a shorter or longer plaintext is
\* rejected with an error, and so is an input below 28 bytes.
C18_UnwrapExactly32 ==
    ret.op = "unwrap_key_aes_gcm" =>
        /\ Len(ret.arg[2]) < 28 => ret.res.kind = "Err"
        /\ \A pt \in {Take(Dek0, 31), Dek0 \o <<0>>} :
               (ret.arg[1] = Kek0 /\ ret.arg[2] = wrap_key_aes_gcm(Kek0, pt, Rep(5, 12)))
                   => ret.res.kind = "Err"

\* the frames in the log after the header, counted by their length fields
RECURSIVE FrameCount(_, _)
FrameCount(bytes, pos) ==
    IF ~CanRead(bytes, pos, 4) THEN 0
    ELSE 1 + FrameCount(bytes, pos + 4 + from_le_bytes(ReadAt(bytes, pos, 4)))

Tombstone(id) == [id |-> id, title |-> << >>, username |-> << >>, password |-> << >>]

\* the file after a step is the file before it plus one record, which holds e
GrownBy(e) ==
    /\ IsPrefix(file.bytes, file'.bytes)
    /\ FrameCount(file'.bytes, RecordsStart(file'.bytes))
           = FrameCount(file.bytes, RecordsStart(file.bytes)) + 1
    /\ read_all_entries(file', vault.dek)
           = Ok(Append(read_all_entries(file, vault.dek).val, e))

\* C19: every successful write_entry, update_entry or delete_entry grows the
\* log by exactly one record (delete_entry by a tombstone of the id,
\* update_entry by a record of the same id); open and the four reads leave the
\* file as it was.
C19_LogFrame ==
    [][/\ (ret'.op \in {"write_entry", "update_entry"} /\ IsOk(ret'.res)) => GrownBy(ret'.arg)
       /\ (ret'.op = "delete_entry" /\ IsOk(ret'.res)) => GrownBy(Tombstone(ret'.arg))
       /\ ret'.op \in {"open", "read_all_entries", "list_entries", "get_entry",
                       "list_active_entries"} => file' = file]_vars

\* C19 witness: update_entry has added a second record of an id
C19_Witness ==
    /\ ret.op = "update_entry" /\ IsOk(ret.res)
    /\ Len(written) = 2 /\ written[1].id = written[2].id
    /\ FrameCount(file.bytes, RecordsStart(file.bytes)) = 2

\* the id strings that are well-formed
WellFormedIds == {to_string(id) : id \in Ids}

\* why the command called in this step cannot succeed: the header is invalid,
\* or the master password is not the vault's, or (past both) the id string is
\* not a UUID
FailureCause ==
    \/ FoundIn((DecodableFiles(FileMagics, FileVersions) \ DecodableFiles({Magic}, {1}))
                   \cup UndecodableFiles)
    \/ /\ FoundIn(DecodableFiles({Magic}, {1}))
       /\ master_of(ret') # vault.master
    \/ /\ FoundIn(DecodableFiles({Magic}, {1}))
       /\ IsOk(key_ladder(file, master_of(ret')))
       /\ ret'.op \in {"read_entry", "update_entry_cmd", "delete_entry_cmd"}
       /\ ret'.arg[2] \notin WellFormedIds

\* C20: a core command that fails on a wrong master password, an invalid
\* header or a malformed id returns the error as a value and leaves the vault
\* file byte for byte as it was.
C20_ErrorLeavesFile ==
    [][(ret'.op \in (CoreCommands \ {"create_vault"}) /\ FailureCause)
           => ret'.res.kind = "Err" /\ file' = file]_vars

\* C20 witness: delete_entry refused a malformed id on a vault that holds a record
C20_Witness ==
    /\ ret.op = "delete_entry_cmd" /\ ret.res.kind = "Err"
    /\ ret.arg[1] = vault.master /\ ret.arg[2] \notin WellFormedIds
    /\ Len(written) > 0

-----------------------------------------------------------------------------
(* The log engine on a file that something else than a completed append has   *)
(* touched once: an append that stopped part-way (the process died between    *)
(* the write_all calls of write_entry), or a short length field at the tail.  *)

\* how many bytes of its frame a dying write_entry got out: len | len, id | into ct
CrashCuts == {4, 20, 40}

\* length fields below 16 + 12 + 16, and what follows them
ShortLengths == {0, 43}

TailBytes == {<< >>, Rep(7, 8)}

Damage(at, bytes) == [at |-> at, bytes |-> bytes]

\* write_entry dies after cut bytes of the frame; the host starts again
Crash_in_write_entry(entry, nonce, cut) ==
    /\ Idle
    /\ HaveStore /\ Len(damage) = 0
    /\ file' = [exists |-> TRUE,
                bytes |-> file.bytes \o Take(record_frame(vault.dek, entry, nonce), cut)]
    /\ damage' = Append(damage, Damage(Len(written),
                                       Take(record_frame(vault.dek, entry, nonce), cut)))
    /\ UNCHANGED <<ret, written, vault, Session>>

\* the file gains a length field below 44, with or without bytes after it
Tail_short_length(v, tail) ==
    /\ Idle
    /\ HaveStore /\ Len(damage) = 0
    /\ file' = [exists |-> TRUE, bytes |-> file.bytes \o to_le_bytes(v) \o tail]
    /\ damage' = Append(damage, Damage(Len(written), to_le_bytes(v) \o tail))
    /\ UNCHANGED <<ret, written, vault, Session>>

NextCrash ==
    \/ \E n \in Nonces : cmd_create_vault(Master0, Rep(9, 32), Dek0, n)
    \/ \E id \in Ids, n \in Nonces : VaultStore_write_entry(Entry(id, <<<<97>>, << >>, << >>>>), n)
    \/ \E id \in Ids, n \in Nonces : VaultStore_delete_entry(id, n)
    \/ \E n \in Nonces, cut \in CrashCuts :
           Crash_in_write_entry(Entry(Uuid(1), <<<<97>>, << >>, << >>>>), n, cut)
    \/ \E v \in ShortLengths, tail \in TailBytes : Tail_short_length(v, tail)
    \/ VaultStore_read_all_entries(vault.dek)
    \/ \E id \in Ids : VaultStore_get_entry(vault.dek, id)
    \/ Return

SpecCrash == Init /\ [][NextCrash]_vars

\* the damage begins with a whole length field whose value is below 44
IsShortLength(d) == Len(d.bytes) >= 4 /\ from_le_bytes(Take(d.bytes, 4)) < 44

\* C21: when replay reads a whole length field below 44 it stops and returns
\* Ok with exactly the entries of the records before it, whether or not bytes
\* (further records included) follow the field.
C21_ShortLengthEndsReplay ==
    (ret.op = "read_all_entries" /\ ret.arg = vault.dek
        /\ Len(damage) > 0 /\ IsShortLength(damage[1]))
        => ret.res = Ok(Take(written, damage[1].at))

\* C21 witness: a record, a short length field, then a record that replay does not reach
C21_Witness ==
    /\ ret.op = "read_all_entries" /\ ret.arg = vault.dek
    /\ Len(damage) > 0 /\ IsShortLength(damage[1])
    /\ damage[1].at = 1 /\ Len(written) = 2
    /\ ret.res = Ok(<<written[1]>>)

\* C23: read-your-writes.  In every file state, one whose log ends in a
\* partially written record included, after write_entry / update_entry /
\* delete_entry returned Ok for e the next read_all_entries returns Ok with e
\* as its last element.
C23_ReadYourWrites ==
    (ret.op = "read_all_entries" /\ ret.arg = vault.dek
        /\ Len(written) > 0
        /\ \A i \in 1..Len(damage) : damage[i].at < Len(written))
        => /\ IsOk(ret.res)
           /\ Len(ret.res.val) > 0
           /\ ret.res.val[Len(ret.res.val)] = written[Len(written)]

-----------------------------------------------------------------------------
(* Agreement of the read paths *)

\* C22: in every log state reached by write_entry / update_entry /
\* delete_entry, an id is listed by list_active_entries exactly when
\* get_entry(id) returns an entry that is not the empty-triple tombstone, and
\* the title listed is the title of that entry.
C22_ReadPathsAgree ==
    (ret.op = "list_active_entries" /\ ret.arg = vault.dek)
        => /\ IsOk(ret.res)
           /\ \A id \in Ids :
                  /\ IsOk(get_entry(file, vault.dek, id))
                  /\ (\E i \in 1..Len(ret.res.val) : ret.res.val[i][1] = id)
                         <=> /\ get_entry(file, vault.dek, id).val.some
                             /\ ~AllEmpty(get_entry(file, vault.dek, id).val.entry)
                  /\ \A i \in 1..Len(ret.res.val) :
                         ret.res.val[i][1] = id
                             => ret.res.val[i][2] = get_entry(file, vault.dek, id).val.entry.title

\* C22 witness: one id is listed with its latest title, the other's last record is a tombstone
C22_Witness ==
    /\ ret.op = "list_active_entries" /\ ret.arg = vault.dek /\ IsOk(ret.res)
    /\ Len(ret.res.val) = 1 /\ Len(written) = 2
    /\ written[1].id # written[2].id
    /\ \E id \in Ids : /\ get_entry(file, vault.dek, id).val.some
                       /\ AllEmpty(get_entry(file, vault.dek, id).val.entry)

-----------------------------------------------------------------------------
(* The session: lock flag, idle detector, clock *)

MaxTime == 600

\* record_activity that also reopens the session
cmd_record_activity_unlocks ==
    /\ Idle
    /\ idle_detector' = IF idle_detector.some THEN Some([last_activity |-> now])
                        ELSE idle_detector
    /\ is_locked' = FALSE
    /\ ret' = Call("record_activity", << >>, Ok("unit"))
    /\ UNCHANGED <<file, written, damage, vault, clipboard_manager, now, clipboard, timers>>

\* record_activity: IdleDetector::record_activity stores the clock
cmd_record_activity ==
    /\ Idle
    /\ idle_detector' = IF idle_detector.some THEN Some([last_activity |-> now])
                        ELSE idle_detector
    /\ ret' = Call("record_activity", << >>, Ok("unit"))
    /\ UNCHANGED <<file, written, damage, vault, is_locked, clipboard_manager, now,
                   clipboard, timers>>

cmd_is_vault_locked ==
    /\ Idle
    /\ ret' = Call("is_vault_locked", << >>, Ok(is_locked))
    /\ UNCHANGED <<file, written, damage, vault, Session>>

\* check_auto_lock.  `now - last` is a u64 subtraction: when the wall clock has
\* been set back below last_activity it panics in a build with overflow checks
\* (poisoning the idle_detector mutex it holds) and wraps to a value far above
\* 300 in a build without them.
cmd_check_auto_lock ==
    /\ Idle
    /\ IF ~idle_detector.some
       THEN /\ ret' = Call("check_auto_lock", << >>, Ok(FALSE))
            /\ UNCHANGED <<is_locked, idle_detector>>
       ELSE IF now < idle_detector.val.last_activity
       THEN \/ /\ idle_detector' = Poisoned
               /\ ret' = Call("check_auto_lock", << >>, Panic)
               /\ UNCHANGED is_locked
            \/ /\ is_locked' = TRUE
               /\ ret' = Call("check_auto_lock", << >>, Ok(TRUE))
               /\ UNCHANGED idle_detector
       ELSE IF now - idle_detector.val.last_activity >= 300
       THEN /\ is_locked' = TRUE
            /\ ret' = Call("check_auto_lock", << >>, Ok(TRUE))
            /\ UNCHANGED idle_detector
       ELSE /\ ret' = Call("check_auto_lock", << >>, Ok(FALSE))
            /\ UNCHANGED <<is_locked, idle_detector>>
    /\ UNCHANGED <<file, written, damage, vault, clipboard_manager, now, clipboard, timers>>

\* the clock moves on by d seconds; a clear-timer thread wakes when its sleep ends
Tick(d) ==
    /\ now + d <= MaxTime
    /\ \A i \in 1..Len(timers) : now + d <= timers[i]
    /\ now' = now + d
    /\ UNCHANGED <<file, ret, written, damage, vault, is_locked, idle_detector,
                   clipboard_manager, clipboard, timers>>

\* SystemTime is the wall clock: an administrator or a time-sync step sets it back to t
ClockSetBack(t) ==
    /\ t < now
    /\ Len(timers) = 0
    /\ now' = t
    /\ UNCHANGED <<file, ret, written, damage, vault, is_locked, idle_detector,
                   clipboard_manager, clipboard, timers>>

IdString1 == to_string(Uuid(1))

NextSession ==
    \/ \E n \in Nonces : cmd_create_vault(Master0, Rep(9, 32), Dek0, n)
    \/ \E m \in Masters : cmd_unlock_vault(m)
    \/ cmd_record_activity
    \/ cmd_is_vault_locked
    \/ cmd_check_auto_lock
    \/ \E n \in Nonces : cmd_create_entry(Master0, <<<<97>>, << >>, << >>>>, Uuid(1), n)
    \/ cmd_list_entries(Master0)
    \/ cmd_read_entry(Master0, IdString1)
    \/ \E n \in Nonces : cmd_update_entry(Master0, IdString1, <<<<98>>, <<117>>, <<112>>>>, n)
    \/ \E n \in Nonces : cmd_delete_entry(Master0, IdString1, n)
    \/ \E d \in {299, 300} : Tick(d)
    \/ \E t \in {0, 299} : ClockSetBack(t)
    \/ Return

SpecSession == Init /\ [][NextSession]_vars

\* the session was unlocked once and is locked again: only check_auto_lock does that
AutoLocked == is_locked /\ clipboard_manager.some

\* the step is an unlock_vault call that got through open and unwrap and returned Ok
UnlockSucceeds ==
    /\ Idle /\ ret'.op = "unlock_vault" /\ IsOk(ret'.res)
    /\ IsOk(open(file)) /\ ret'.arg = vault.master

\* C24: is_locked is true initially and turns false only inside an
\* unlock_vault call whose open and unwrap both succeeded; an unlock_vault that
\* returns an error leaves is_locked, the idle detector and the clipboard
\* manager as they were.
C24_UnlockOnlyOnSuccess ==
    /\ is_locked = TRUE
    /\ [][/\ (is_locked /\ ~is_locked') => UnlockSucceeds
          /\ (Idle /\ ret'.op = "unlock_vault" /\ ~IsOk(ret'.res))
                 => UNCHANGED <<is_locked, idle_detector, clipboard_manager>>]_vars

\* C24 witness: an unlock_vault has failed in a session that the auto-lock had locked
C24_Witness ==
    /\ ret.op = "unlock_vault" /\ ret.res.kind = "Err"
    /\ AutoLocked /\ idle_detector.some

\* C25: auto-lock is sticky.  check_auto_lock locks only when the clock is 300 s
\* or more past the last recorded activity (or has been set back below it, the
\* subtraction wrapping), and from then on is_locked stays
\* true through record_activity, check_auto_lock, is_vault_locked and the
\* CRUD commands; only a successful unlock_vault makes it false.
C25_AutoLockSticky ==
    [][/\ (Idle /\ ret'.op = "check_auto_lock" /\ ~is_locked /\ is_locked')
              => /\ idle_detector.some
                 /\ \/ now - idle_detector.val.last_activity >= 300
                    \/ now < idle_detector.val.last_activity
       /\ (AutoLocked /\ ~UnlockSucceeds) => is_locked'
       /\ (AutoLocked /\ Idle /\ ret'.op = "is_vault_locked") => ret'.res = Ok(TRUE)]_vars

\* C25 witness: activity was recorded after the auto-lock and the session is still locked
C25_Witness ==
    /\ AutoLocked /\ ret.op = "record_activity"
    /\ idle_detector.some /\ idle_detector.val.last_activity = now /\ now >= 300

-----------------------------------------------------------------------------
(* The clipboard and its clear timers *)

MaxTimers == 2

Texts == {"p", "q"}

RemoveAt(s, i) == SubSeq(s, 1, i - 1) \o SubSeq(s, i + 1, Len(s))

\* copy_to_clipboard whose timer replaces the ones already asleep
cmd_copy_to_clipboard_restarts(text, supported) ==
    /\ Idle
    /\ IF clipboard_manager.some
       THEN IF supported
            THEN /\ clipboard' = [text |-> text, at |-> now]
                 /\ timers' = <<now + clipboard_manager.val.clear_timeout>>
                 /\ ret' = Call("copy_to_clipboard", text, Ok("unit"))
            ELSE /\ ret' = Call("copy_to_clipboard", text,
                                Err("Clipboard not supported on this platform"))
                 /\ UNCHANGED <<clipboard, timers>>
       ELSE /\ ret' = Call("copy_to_clipboard", text, Ok("unit"))
            /\ UNCHANGED <<clipboard, timers>>
    /\ UNCHANGED <<file, written, damage, vault, is_locked, idle_detector, clipboard_manager,
                   now>>

\* copy_to_clipboard: with a manager, ClipboardManager::copy_to_clipboard places
\* the text (or fails: no pbcopy/clip on the platform, or the spawn fails) and a
\* detached thread is spawned that sleeps clear_timeout; without one, nothing
cmd_copy_to_clipboard(text, supported) ==
    /\ Idle
    /\ IF clipboard_manager.some
       THEN IF supported
            THEN /\ Len(timers) < MaxTimers
                 /\ clipboard' = [text |-> text, at |-> now]
                 /\ timers' = Append(timers, now + clipboard_manager.val.clear_timeout)
                 /\ ret' = Call("copy_to_clipboard", text, Ok("unit"))
            ELSE /\ ret' = Call("copy_to_clipboard", text,
                                Err("Clipboard not supported on this platform"))
                 /\ UNCHANGED <<clipboard, timers>>
       ELSE /\ ret' = Call("copy_to_clipboard", text, Ok("unit"))
            /\ UNCHANGED <<clipboard, timers>>
    /\ UNCHANGED <<file, written, damage, vault, is_locked, idle_detector, clipboard_manager,
                   now>>

\* the spawned thread, its sleep over: let _ = ClipboardManager::clear_clipboard()
clear_timer_thread ==
    \E i \in 1..Len(timers) :
        /\ timers[i] <= now
        /\ clipboard' = EmptyClipboard
        /\ timers' = RemoveAt(timers, i)
        /\ UNCHANGED <<file, ret, written, damage, vault, is_locked, idle_detector,
                       clipboard_manager, now>>

NextClipboard ==
    \/ \E n \in Nonces : cmd_create_vault(Master0, Rep(9, 32), Dek0, n)
    \/ \E m \in Masters : cmd_unlock_vault(m)
    \/ \E text \in Texts, supported \in BOOLEAN : cmd_copy_to_clipboard(text, supported)
    \/ clear_timer_thread
    \/ cmd_check_auto_lock
    \/ \E d \in {15, 30} : Tick(d)
    \/ Return

SpecClipboard == Init /\ [][NextClipboard]_vars

====
